---- MODULE Spec2Model ----
(***************************************************************************)
(* Model of dataProcess.py: the wind-tunnel data reduction (q2v,           *)
(* force2coeff, NA2LD, momentTransfer, datasplit).                         *)
(*                                                                         *)
(* Python floats are modelled as decimal floating-point numbers <<m, e>>   *)
(* (value m * 10^e) whose mantissa m keeps Digits significant digits and   *)
(* is rounded toward zero.  The representation is canonical (zero is       *)
(* <<0, 0>>, every other mantissa has exactly Digits digits), so equality  *)
(* of values is equality of tuples.                                        *)
(***************************************************************************)
EXTENDS Integers, Sequences, FiniteSets, TLC

\* Significant decimal digits kept by the float model.
Digits == 4

\* Longest column (number of samples of one run) in the inputs.
MaxRows == 2

\* Longest argument list in a direct call of one of the functions.
MaxLen == 2

-----------------------------------------------------------------------------
(* Decimal floating point.                                                 *)

RECURSIVE Pow10(_)
Pow10(n) == IF n <= 0 THEN 1 ELSE 10 * Pow10(n - 1)

Abs(a) == IF a < 0 THEN -a ELSE a

Sgn(a) == IF a < 0 THEN -1 ELSE IF a > 0 THEN 1 ELSE 0

\* Integer division rounding toward zero (sign-symmetric, like IEEE rounding).
TDiv(a, b) == Sgn(a) * Sgn(b) * (Abs(a) \div Abs(b))

RECURSIVE Norm(_, _)
Norm(m, e) ==
    IF m = 0 THEN <<0, 0>>
    ELSE IF Abs(m) >= Pow10(Digits) THEN Norm(TDiv(m, 10), e + 1)
    ELSE IF Abs(m) < Pow10(Digits - 1) THEN Norm(m * 10, e - 1)
    ELSE <<m, e>>

\* The float nearest (toward zero) to the decimal literal m * 10^e.
Flt(m, e) == Norm(m, e)

Zero == Flt(0, 0)

IsZero(x) == x[1] = 0

Neg(x) == <<-x[1], x[2]>>

FAbs(x) == <<Abs(x[1]), x[2]>>

\* floor(a * b / 10^k) for the k this returns, one digit of b at a time, so
\* that no intermediate value exceeds 10 * a.
RECURSIVE MulAcc(_, _, _, _)
MulAcc(a, b, acc, k) ==
    IF b = 0 THEN <<acc, k>>
    ELSE MulAcc(a, b \div 10, (acc \div 10) + a * (b % 10), k + 1)

Mul(x, y) ==
    IF IsZero(x) \/ IsZero(y) THEN Zero
    ELSE LET a == Abs(x[1])
             b == Abs(y[1])
             r == MulAcc(a, b \div 10, a * (b % 10), 0)
         IN  Norm(Sgn(x[1]) * Sgn(y[1]) * r[1], x[2] + y[2] + r[2])

\* Long division: n more quotient digits of r / b.
RECURSIVE LongDiv(_, _, _, _)
LongDiv(r, b, quo, n) ==
    IF n = 0 THEN quo
    ELSE LongDiv((r * 10) % b, b, quo * 10 + ((r * 10) \div b), n - 1)

\* x / y for y # 0 (the callers guard the zero divisor, as the code does).
Div(x, y) ==
    IF IsZero(x) THEN Zero
    ELSE LET a == Abs(x[1])
             b == Abs(y[1])
             quo == LongDiv(a % b, b, a \div b, Digits)
         IN  Norm(Sgn(x[1]) * Sgn(y[1]) * quo, x[2] - y[2] - Digits)

Add(x, y) ==
    IF IsZero(x) THEN y
    ELSE IF IsZero(y) THEN x
    ELSE LET hi == IF x[2] >= y[2] THEN x ELSE y
             lo == IF x[2] >= y[2] THEN y ELSE x
             d  == hi[2] - lo[2]
         IN  IF d > Digits THEN hi
             ELSE Norm(hi[1] + TDiv(lo[1], Pow10(d)), hi[2])

Sub(x, y) == Add(x, Neg(y))

\* floor(sqrt(n)) by bisection on lo..hi, lo*lo <= n < (hi+1)*(hi+1).
RECURSIVE ISqrt(_, _, _)
ISqrt(n, lo, hi) ==
    IF lo >= hi THEN lo
    ELSE LET mid == (lo + hi + 1) \div 2
         IN  IF mid * mid <= n THEN ISqrt(n, mid, hi) ELSE ISqrt(n, lo, mid - 1)

\* math.sqrt of x >= 0.
Sqrt(x) ==
    IF IsZero(x) THEN Zero
    ELSE LET odd == x[2] % 2 # 0
             m   == (IF odd THEN x[1] * 10 ELSE x[1]) * 100
             e   == (IF odd THEN x[2] - 1 ELSE x[2]) - 2
         IN  Norm(ISqrt(m, 0, 40000), e \div 2)

\* Fixed-point scale of the series that evaluate math.sin and math.cos.
TrigScale == Pow10(4)

\* The float x as an integer number of 1/TrigScale units.
Fix(x) ==
    IF x[2] >= -4 THEN x[1] * Pow10(x[2] + 4) ELSE TDiv(x[1], Pow10(-4 - x[2]))

\* An angle in 1/TrigScale radians reduced to (-pi, pi].
Reduce(f) ==
    LET r == f % 62832 IN IF r > 31416 THEN r - 62832 ELSE r

\* Sum of the Taylor series whose term of degree k is term:
\* the next term is -term * x^2 / ((k+1)(k+2)).
RECURSIVE Series(_, _, _, _)
Series(x, term, k, acc) ==
    IF term = 0 THEN acc
    ELSE LET u == TDiv(term * x, TrigScale * (k + 1))
         IN  Series(x, -TDiv(u * x, TrigScale * (k + 2)), k + 2, acc + term)

Sin(x) == LET r == Reduce(Fix(x)) IN Norm(Series(r, r, 1, 0), -4)

Cos(x) == LET r == Reduce(Fix(x)) IN Norm(Series(r, TrigScale, 0, 0), -4)

\* math.radians: degrees times pi/180.
Radians(x) == Mul(x, Flt(1745329252, -11))

-----------------------------------------------------------------------------
(* Python values.                                                          *)

\* None (a one-element tuple, so that it compares unequal to every float).
None == <<"None">>

\* Outcome of a call: a returned value, or the exception it raised.
Return(v) == [status |-> "return", val |-> v]

Raise(exc) == [status |-> "raise", val |-> exc]

\* A column times / divided by a scalar (pandas Series arithmetic).
ColMul(col, c) == [j \in 1..Len(col) |-> Mul(col[j], c)]

ColDiv(col, c) == [j \in 1..Len(col) |-> Div(col[j], c)]

-----------------------------------------------------------------------------
(* Module-level constants and the functions.                               *)

psf2pa == Flt(20885, -6)

T == Flt(29615, -2)

p == Flt(100914, 0)

R == Flt(287, 0)

\* Mutant of Q2vRadicand: the absolute value left out.
Q2vRadicand_NoAbs(qi) ==
    Div(Mul(Mul(Mul(Flt(2, 0), Div(qi, psf2pa)), R), T), p)

\* Argument of math.sqrt in q2v for one reading.
Q2vRadicand(qi) ==
    Div(Mul(Mul(Mul(Flt(2, 0), FAbs(Div(qi, psf2pa))), R), T), p)

\* math.sqrt raises ValueError ("math domain error") on a negative argument.
q2v(q) ==
    IF \E j \in 1..Len(q) : Q2vRadicand(q[j])[1] < 0 THEN Raise("ValueError")
    ELSE Return([j \in 1..Len(q) |-> Sqrt(Q2vRadicand(q[j]))])

S == Flt(1, -2)

\* Mutant of CoeffAt: a zero dynamic pressure gives the coefficient 0.
CoeffAt_ZeroForMissing(force, q, j) ==
    IF IsZero(q[j]) THEN Zero ELSE Div(force[j], Mul(q[j], S))

\* One pass of the loop body of force2coeff.
CoeffAt(force, q, j) ==
    IF IsZero(q[j]) THEN None ELSE Div(force[j], Mul(q[j], S))

\* Mutant of force2coeff: the loop starts at index 1 and the list is
\* allocated to match.
force2coeff_SkipsFirst(force, q) ==
    IF Len(q) < Len(force) THEN Raise("IndexError")
    ELSE Return([j \in 1..(Len(force) - 1) |->
                    IF IsZero(q[j + 1]) THEN None
                    ELSE Div(force[j + 1], Mul(q[j + 1], S))])

\* for i in range(0, len(force)): q[i] raises IndexError when q is shorter.
force2coeff(force, q) ==
    IF Len(q) < Len(force) THEN Raise("IndexError")
    ELSE Return([j \in 1..Len(force) |-> CoeffAt(force, q, j)])

\* One pass of the loop body of NA2LD on the list object lst.  liftForce,
\* dragForce and alphaRad are three names of that one object, so each of the
\* three assignments overwrites lst[j] and the next statement reads it back.
NA2LDBody(N, A, alphaDeg, lst, j) ==
    LET s1 == [lst EXCEPT ![j] = Radians(alphaDeg[j])]
        s2 == [s1 EXCEPT ![j] =
                   Sub(Mul(N[j], Cos(s1[j])), Mul(A[j], Sin(s1[j])))]
    IN  [s2 EXCEPT ![j] = Add(Mul(N[j], Sin(s2[j])), Mul(A[j], Cos(s2[j])))]

RECURSIVE NA2LDLoop(_, _, _, _, _)
NA2LDLoop(N, A, alphaDeg, lst, j) ==
    IF j > Len(N) THEN lst
    ELSE NA2LDLoop(N, A, alphaDeg, NA2LDBody(N, A, alphaDeg, lst, j), j + 1)

\* Returns the pair (liftForce, dragForce): the same list object twice.
NA2LD(N, A, alphaDeg) ==
    IF Len(alphaDeg) < Len(N) \/ Len(A) < Len(N) THEN Raise("IndexError")
    ELSE LET lst == NA2LDLoop(N, A, alphaDeg, [j \in 1..Len(N) |-> Zero], 1)
         IN  Return(<<lst, lst>>)

\* A + C of momentTransfer, in metres.
TransferArm(b) ==
    LET A == Div(Flt(28829, -3), Flt(1000, 0))
        D == Div(Flt(7104, -2), Flt(1000, 0))
        C == Sub(D, Div(b, Flt(1000, 0)))
    IN  Add(A, C)

momentTransfer(moment, normal, b) ==
    IF Len(normal) < Len(moment) THEN Raise("IndexError")
    ELSE Return([j \in 1..Len(moment) |->
                    Sub(moment[j], Mul(TransferArm(b), normal[j]))])

\* class Data
Data(alphaVel, normalForce, axialForce, pitchingMoment, coefficientLift, coefficientDrag) ==
    [X |-> alphaVel, NF |-> normalForce, AF |-> axialForce,
     PM |-> pitchingMoment, CL |-> coefficientLift, CD |-> coefficientDrag]

diameters ==
    <<Flt(7482, -2), Flt(7482, -2), Flt(7548, -2), Flt(7540, -2), Flt(7621, -2)>>

B ==
    <<Flt(9842, -2), Flt(9842, -2), Flt(9927, -2), Flt(12700, -2), Flt(14692, -2)>>

lbf2N == Flt(444822, -5)

inlbs2Nm == Flt(1129848333, -10)

\* The five csv files of the main program, one table each.
files ==
    <<"Flat Plate Angle", "Flat Plate Velocity", "Half Sphere",
      "Inverted Cup", "Sphere">>

-----------------------------------------------------------------------------
(* Inputs.                                                                 *)

\* All sequences over Vals of length 0..n.
RECURSIVE SeqsUpTo(_, _)
SeqsUpTo(Vals, n) ==
    IF n = 0 THEN {<<>>}
    ELSE LET shorter == SeqsUpTo(Vals, n - 1)
         IN  shorter \cup {Append(sq, v) : sq \in shorter, v \in Vals}

\* One row of a table as read_files delivers it: one reading per column.
Row(q, nf, af, pm, alpha) ==
    [q |-> Flt(q, 0), NF |-> Flt(nf, 0), AF |-> Flt(af, 0),
     PM |-> Flt(pm, 0), Alpha |-> Flt(alpha, 0)]

\* A recording the tables are cut from; no two rows agree in any column
\* except where a zero reading is wanted.
Samples ==
    <<Row(0, 1, 2, 1, 0), Row(2, -1, 1, 3, 90), Row(-1, 2, 0, -2, 30),
      Row(1, 3, -2, 2, 45), Row(3, -2, 3, -1, 10)>>

\* The table of `rows` rows that starts at row `first` of the recording
\* (cyclically).  A DataFrame: its columns have one length by construction.
Table(first, rows) ==
    [j \in 1..rows |-> Samples[((first + j - 2) % Len(Samples)) + 1]]

Col(tbl, name) == [j \in 1..Len(tbl) |-> tbl[j][name]]

\* Arguments of the direct calls.
ForceVals == {Flt(-1, 0), Zero, Flt(2, 0)}

PressureVals == {Flt(-2, 0), Zero, Flt(2, 0)}

\* Arguments of NA2LD.
NormalVals == {Flt(-1, 0), Flt(2, 0)}

AxialVals == {Flt(-1, 0), Zero}

AngleVals == {Zero, Flt(90, 0)}

ArmVals == {B[k] : k \in 1..Len(B)}

-----------------------------------------------------------------------------
(* datasplit, statement by statement.                                      *)

VARIABLES
    data,   \* the argument of datasplit: one table per file
    list,   \* the list datasplit returns
    lF,     \* results of the NA2LD call of line 131
    dF,
    i,      \* loop index of line 151 (0-based, as in the code)
    pc,     \* the line datasplit executes next
    call    \* a direct call of one function: its arguments and outcome

vars == <<data, list, lF, dF, i, pc, call>>

n == Len(files)

NoCall == [fn |-> "none", args |-> <<>>, out |-> Return(<<>>)]

\* list = [0]*n: slots not yet holding a Data object.
Empty == <<>>

Init ==
    /\ \E phase \in 1..Len(Samples), rows \in [1..n -> 0..MaxRows] :
           data = [k \in 1..n |-> Table(phase + k, rows[k])]
    /\ list = <<>>
    /\ lF = <<>>
    /\ dF = <<>>
    /\ i = 0
    /\ pc = "L131"
    /\ call = NoCall

\* data[k][column] * lbf2N etc. (k 0-based).
NormalSI(k) == ColMul(Col(data[k + 1], "NF"), lbf2N)

AxialSI(k) == ColMul(Col(data[k + 1], "AF"), lbf2N)

MomentSI(k) == ColMul(Col(data[k + 1], "PM"), inlbs2Nm)

\* Mutant of PressureArg: the reading multiplied by psf2pa.
PressureArg_Times(k) == ColMul(Col(data[k + 1], "q"), psf2pa)

\* data[k]['q']/psf2pa: the dynamic pressure handed to force2coeff.
PressureArg(k) == ColDiv(Col(data[k + 1], "q"), psf2pa)

\* Lines 131-132.
Rotate ==
    /\ pc = "L131"
    /\ LET r == NA2LD(NormalSI(0), AxialSI(0), Col(data[1], "Alpha"))
       IN  /\ lF' = r.val[1]
           /\ dF' = r.val[2]
    /\ pc' = "L137"
    /\ UNCHANGED <<data, list, i, call>>

\* The record of the angle run, lines 138-145.
AngleRecord ==
    Data(Col(data[1], "Alpha"), NormalSI(0), AxialSI(0), MomentSI(0),
         force2coeff(lF, PressureArg(0)).val,
         force2coeff(dF, PressureArg(0)).val)

\* Lines 137-145.
ConstructAngle ==
    /\ pc = "L137"
    /\ list' = [k \in 1..n |-> IF k = 1 THEN AngleRecord ELSE Empty]
    /\ pc' = "L147"
    /\ UNCHANGED <<data, lF, dF, i, call>>

\* Mutant of Transferred: the result is stored in NF as well.
Transferred_AlsoNormal(rec, k) ==
    [rec EXCEPT !.PM = momentTransfer(rec.PM, rec.NF, B[k + 1]).val,
                !.NF = momentTransfer(rec.PM, rec.NF, B[k + 1]).val]

\* list[k].PM = momentTransfer(list[k].PM, list[k].NF, B[k]), lines 147, 160.
Transferred(rec, k) ==
    [rec EXCEPT !.PM = momentTransfer(rec.PM, rec.NF, B[k + 1]).val]

\* Line 147, then entering the loop of line 151.
TransferAngle ==
    /\ pc = "L147"
    /\ list' = [list EXCEPT ![1] = Transferred(list[1], 0)]
    /\ i' = 1
    /\ pc' = "L151"
    /\ UNCHANGED <<data, lF, dF, call>>

\* Mutant of VelocityRecord: the abscissa is taken from table 0.
VelocityRecord_FirstTable(k) ==
    Data(q2v(Col(data[1], "q")).val, NormalSI(k), AxialSI(k), MomentSI(k),
         force2coeff(NormalSI(k), PressureArg(k)).val,
         force2coeff(AxialSI(k), PressureArg(k)).val)

\* The record of velocity run k, lines 152-159.
VelocityRecord(k) ==
    Data(q2v(Col(data[k + 1], "q")).val, NormalSI(k), AxialSI(k), MomentSI(k),
         force2coeff(NormalSI(k), PressureArg(k)).val,
         force2coeff(AxialSI(k), PressureArg(k)).val)

\* Lines 151-159.
ConstructVelocity ==
    /\ pc = "L151"
    /\ i < n
    /\ list' = [list EXCEPT ![i + 1] = VelocityRecord(i)]
    /\ pc' = "L160"
    /\ UNCHANGED <<data, lF, dF, i, call>>

\* Line 160 and the loop increment.
TransferVelocity ==
    /\ pc = "L160"
    /\ list' = [list EXCEPT ![i + 1] = Transferred(list[i + 1], i)]
    /\ i' = i + 1
    /\ pc' = "L151"
    /\ UNCHANGED <<data, lF, dF, call>>

\* Line 162.
ReturnList ==
    /\ pc = "L151"
    /\ i >= n
    /\ pc' = "done"
    /\ UNCHANGED <<data, list, lF, dF, i, call>>

Next ==
    \/ Rotate
    \/ ConstructAngle
    \/ TransferAngle
    \/ ConstructVelocity
    \/ TransferVelocity
    \/ ReturnList

Spec == Init /\ [][Next]_vars

-----------------------------------------------------------------------------
(* The functions called directly, one call per behaviour.                  *)

InitFn ==
    /\ data = [k \in 1..n |-> <<>>]
    /\ list = <<>>
    /\ lF = <<>>
    /\ dF = <<>>
    /\ i = 0
    /\ pc = "call"
    /\ call = NoCall

\* The record of a call and its outcome.
Outcome(fn, args, out) == [fn |-> fn, args |-> args, out |-> out]

CallQ2v ==
    /\ pc = "call"
    /\ call = NoCall
    /\ \E q \in SeqsUpTo(PressureVals, MaxLen) :
          call' = Outcome("q2v", <<q>>, q2v(q))
    /\ UNCHANGED <<data, list, lF, dF, i, pc>>

CallForce2coeff ==
    /\ pc = "call"
    /\ call = NoCall
    /\ \E force \in SeqsUpTo(ForceVals, MaxLen),
          q \in SeqsUpTo(PressureVals, MaxLen) :
          call' = Outcome("force2coeff", <<force, q>>, force2coeff(force, q))
    /\ UNCHANGED <<data, list, lF, dF, i, pc>>

CallNA2LD ==
    /\ pc = "call"
    /\ call = NoCall
    /\ \E N \in SeqsUpTo(NormalVals, MaxLen), A \in SeqsUpTo(AxialVals, MaxLen),
          alphaDeg \in SeqsUpTo(AngleVals, MaxLen) :
          call' = Outcome("NA2LD", <<N, A, alphaDeg>>, NA2LD(N, A, alphaDeg))
    /\ UNCHANGED <<data, list, lF, dF, i, pc>>

CallMomentTransfer ==
    /\ pc = "call"
    /\ call = NoCall
    /\ \E moment \in SeqsUpTo(ForceVals, MaxLen),
          normal \in SeqsUpTo(ForceVals, MaxLen), b \in ArmVals :
          call' = Outcome("momentTransfer", <<moment, normal, b>>,
                          momentTransfer(moment, normal, b))
    /\ UNCHANGED <<data, list, lF, dF, i, pc>>

NextFn == CallQ2v \/ CallForce2coeff \/ CallNA2LD \/ CallMomentTransfer

SpecFn == InitFn /\ [][NextFn]_vars

-----------------------------------------------------------------------------
(* Properties of the direct calls (specification SpecFn).                  *)

Arg(k) == call.args[k]

SameLen(sqs) == \A a \in sqs, b \in sqs : Len(a) = Len(b)

\* C1: for force and dynamic-pressure lists of equal length, force2coeff
\* returns a list of that length whose entry i is None exactly when
\* dynamicPressure[i] == 0 and is force[i] / (dynamicPressure[i] * 0.01)
\* otherwise.
C1_Coefficient ==
    (call.fn = "force2coeff" /\ Len(Arg(1)) = Len(Arg(2))) =>
        /\ call.out.status = "return"
        /\ Len(call.out.val) = Len(Arg(1))
        /\ \A j \in 1..Len(Arg(1)) :
              /\ call.out.val[j] = None <=> Arg(2)[j] = Zero
              /\ Arg(2)[j] # Zero =>
                    call.out.val[j] = Div(Arg(1)[j], Mul(Arg(2)[j], Flt(1, -2)))

\* A call with a zero and a non-zero dynamic pressure has returned.
C1_Witness ==
    /\ call.fn = "force2coeff"
    /\ Len(Arg(1)) = 2
    /\ Len(Arg(2)) = 2
    /\ Arg(2)[1] = Zero
    /\ Arg(2)[2] # Zero
    /\ Arg(1)[2] # Zero
    /\ call.out.val[1] = None
    /\ call.out.val[2] # None

\* C2: for lists of equal length, NA2LD returns lift[i] = N[i] cos a -
\* A[i] sin a and drag[i] = N[i] sin a + A[i] cos a with a = alphaDeg[i] in
\* radians, each list holding its own values after the loop.
C2_Rotation ==
    (call.fn = "NA2LD" /\ SameLen({Arg(1), Arg(2), Arg(3)})) =>
        /\ call.out.status = "return"
        /\ \A j \in 1..Len(Arg(1)) :
              LET a == Radians(Arg(3)[j])
              IN  /\ call.out.val[1][j] =
                         Sub(Mul(Arg(1)[j], Cos(a)), Mul(Arg(2)[j], Sin(a)))
                  /\ call.out.val[2][j] =
                         Add(Mul(Arg(1)[j], Sin(a)), Mul(Arg(2)[j], Cos(a)))

\* C3: with an angle of attack of 0 degrees at every index, NA2LD returns
\* lift equal to the normal force and drag equal to the axial force.
C3_IdentityAtZero ==
    (/\ call.fn = "NA2LD"
     /\ SameLen({Arg(1), Arg(2), Arg(3)})
     /\ \A j \in 1..Len(Arg(3)) : Arg(3)[j] = Zero) =>
        /\ call.out.status = "return"
        /\ call.out.val[1] = Arg(1)
        /\ call.out.val[2] = Arg(2)

\* C5: a call of force2coeff, NA2LD or momentTransfer whose list arguments
\* differ in length ends in an error; it never returns a result computed
\* from the first len(first argument) elements.
C5_MismatchRaises ==
    \/ (call.fn = "force2coeff" /\ ~SameLen({Arg(1), Arg(2)}))
    \/ (call.fn = "NA2LD" /\ ~SameLen({Arg(1), Arg(2), Arg(3)}))
    \/ (call.fn = "momentTransfer" /\ ~SameLen({Arg(1), Arg(2)}))
    => call.out.status = "raise"

\* C7: q2v returns, for every list q, a list of the same length in the same
\* order; entry i is the velocity it returns for the reading -q[i] as well,
\* the square root is never taken of a negative number (no ValueError), and
\* a reading of 0 gives the velocity 0.
C7_AbsoluteValue ==
    call.fn = "q2v" =>
        /\ call.out.status = "return"
        /\ Len(call.out.val) = Len(Arg(1))
        /\ \A j \in 1..Len(Arg(1)) :
              /\ q2v(<<Neg(Arg(1)[j])>>) = Return(<<call.out.val[j]>>)
              /\ Arg(1)[j] = Zero => call.out.val[j] = Zero

\* q2v has returned for a list holding a reading and its negative.
C7_Witness ==
    /\ call.fn = "q2v"
    /\ Len(Arg(1)) = 2
    /\ Arg(1)[1][1] > 0
    /\ Arg(1)[2] = Neg(Arg(1)[1])
    /\ call.out.status = "return"
    /\ call.out.val[1] = call.out.val[2]
    /\ call.out.val[1][1] > 0

-----------------------------------------------------------------------------
(* Properties of datasplit (specification Spec).                           *)

\* Runs are numbered from 0 as in the code; run k is list[k + 1] here.
Runs == 0..(n - 1)

Rows(k) == 1..Len(data[k + 1])

Rec(k) == list[k + 1]

Reading(k, j) == data[k + 1][j]

\* The transfer distance the specification gives for run k:
\* A + D - b/1000 with D the reference diameter of the article of run k.
ArticleArm(k) ==
    Add(Flt(28829, -6),
        Sub(Div(diameters[k + 1], Flt(1000, 0)), Div(B[k + 1], Flt(1000, 0))))

\* C4: for every run k the returned moment is moment[i] - (A + D - b/1000)
\* * normal[i] with A = 0.028829 m, b = B[k] and D the reference diameter
\* of the article of run k (74.82, 74.82, 75.48, 75.40, 76.21 mm).
C4_ArticleDiameter ==
    pc = "done" =>
        \A k \in Runs : \A j \in Rows(k) :
            Rec(k).PM[j] =
                Sub(MomentSI(k)[j], Mul(ArticleArm(k), NormalSI(k)[j]))

\* C6: every record datasplit returns has X, NF, AF, PM, CL and CD of the
\* length of its run's table, and entry i of each field comes from row i
\* of that table.
C6_AlignedFields ==
    pc = "done" =>
        \A k \in Runs :
            /\ \A f \in {"X", "NF", "AF", "PM", "CL", "CD"} :
                  Len(Rec(k)[f]) = Len(data[k + 1])
            /\ \A j \in Rows(k) :
                  /\ Rec(k).NF[j] = Mul(Reading(k, j).NF, lbf2N)
                  /\ Rec(k).AF[j] = Mul(Reading(k, j).AF, lbf2N)
                  /\ Rec(k).X[j] =
                        IF k = 0 THEN Reading(k, j).Alpha
                        ELSE Sqrt(Q2vRadicand(Reading(k, j).q))
                  /\ Rec(k).CL[j] = None <=> Reading(k, j).q = Zero
                  /\ Rec(k).CD[j] = None <=> Reading(k, j).q = Zero
                  /\ Rec(k).PM[j] =
                        Sub(Mul(Reading(k, j).PM, inlbs2Nm),
                            Mul(TransferArm(B[k + 1]), Rec(k).NF[j]))

\* datasplit has returned a record of several rows whose rows differ.
C6_Witness ==
    /\ pc = "done"
    /\ \E k \in Runs :
          /\ Len(Rec(k).X) >= 2
          /\ Len(Rec(k).CL) >= 2
          /\ Rec(k).NF[1] # Rec(k).NF[2]
          /\ Rec(k).CL[1] # Rec(k).CL[2]

Constructed(k) == list # <<>> /\ Rec(k) # Empty

\* C8 as stated: once a record has been constructed no step changes any of
\* its fields.
C8_NeverAssignedAgain ==
    [][\A k \in Runs : Constructed(k) => list'[k + 1] = list[k + 1]]_vars

\* C8 as amended: a constructed record changes in one step only, the
\* statement that follows its construction (line 147 or 160), which
\* replaces PM by momentTransfer(PM, NF, B[k]) of the moment and normal
\* force the record was constructed with and leaves X, NF, AF, CL and CD as
\* they are.
C8_OnlyMomentReassigned ==
    [][\A k \in Runs :
          (Constructed(k) /\ list'[k + 1] # list[k + 1]) =>
              /\ pc \in {"L147", "L160"}
              /\ k = i
              /\ Rec(k).PM = MomentSI(k)
              /\ list'[k + 1] =
                    [Rec(k) EXCEPT !.PM =
                        [j \in Rows(k) |->
                            Sub(MomentSI(k)[j],
                                Mul(TransferArm(B[k + 1]), Rec(k).NF[j]))]]]_vars

\* datasplit has returned and the transfer has changed the moment a record
\* was constructed with.
C8_Witness ==
    /\ pc = "done"
    /\ \E k \in Runs : Len(Rec(k).PM) > 0 /\ Rec(k).PM # MomentSI(k)

\* The coefficient force2coeff gives for one force and one dynamic pressure.
Coefficient(force, q) == IF q = Zero THEN None ELSE Div(force, Mul(q, S))

\* The velocity of the formula of q2v for a dynamic pressure in pascals.
Velocity(qPa) ==
    Sqrt(Div(Mul(Mul(Mul(Flt(2, 0), FAbs(qPa)), R), T), p))

\* The force normalised into CL / CD of run k at row j.
LiftForce(k, j) == IF k = 0 THEN lF[j] ELSE NormalSI(k)[j]

DragForce(k, j) == IF k = 0 THEN dF[j] ELSE AxialSI(k)[j]

\* The raw reading q converted with the factor psf2pa, by a multiplication
\* or by a division.
Converted(q, multiply) ==
    IF multiply THEN Mul(q, psf2pa) ELSE Div(q, psf2pa)

\* The returned coefficients and velocities are those of the dynamic
\* pressure Converted(q, multiply).
PressureUsed(multiply) ==
    pc = "done" =>
        \A k \in Runs : \A j \in Rows(k) :
            LET qPa == Converted(Reading(k, j).q, multiply)
            IN  /\ Rec(k).CL[j] = Coefficient(LiftForce(k, j), qPa)
                /\ Rec(k).CD[j] = Coefficient(DragForce(k, j), qPa)
                /\ k > 0 => Rec(k).X[j] = Velocity(qPa)

\* C9 as stated: the dynamic pressure that divides the force in the
\* coefficients and enters the velocity formula is the raw reading
\* multiplied by 0.020885, for every run and sample.
C9_PressureTimesFactor == PressureUsed(TRUE)

\* C9 as amended: that dynamic pressure is the raw reading divided by
\* 0.020885, for every run and sample.
C9_PressureOverFactor == PressureUsed(FALSE)

\* datasplit has returned a velocity run with a non-zero reading, a
\* coefficient and a velocity computed from it.
C9_Witness ==
    /\ pc = "done"
    /\ \E k \in Runs : \E j \in Rows(k) :
          /\ k > 0
          /\ Reading(k, j).q # Zero
          /\ Rec(k).CL[j] # None
          /\ Rec(k).CL[j] # Zero
          /\ Rec(k).X[j] # Zero

\* C10: datasplit returns n records in input order, the angle run first;
\* record k >= 1 is built without rotation from table k alone: X = q2v(q),
\* CL = force2coeff of the SI normal force, CD = force2coeff of the SI axial
\* force, PM = momentTransfer of the SI moment and SI normal force with
\* B[k].
C10_VelocityRuns ==
    pc = "done" =>
        /\ Len(list) = n
        /\ Rec(0).X = Col(data[1], "Alpha")
        /\ \A k \in Runs \ {0} :
              LET tbl == data[k + 1]
                  nf  == ColMul(Col(tbl, "NF"), lbf2N)
                  af  == ColMul(Col(tbl, "AF"), lbf2N)
                  pm  == ColMul(Col(tbl, "PM"), inlbs2Nm)
                  qPa == ColDiv(Col(tbl, "q"), psf2pa)
              IN  /\ Return(Rec(k).X) = q2v(Col(tbl, "q"))
                  /\ Rec(k).NF = nf
                  /\ Rec(k).AF = af
                  /\ Return(Rec(k).CL) = force2coeff(nf, qPa)
                  /\ Return(Rec(k).CD) = force2coeff(af, qPa)
                  /\ Return(Rec(k).PM) = momentTransfer(pm, nf, B[k + 1])

\* datasplit has returned and two velocity runs with different tables and
\* different moment-arm offsets hold different records.
C10_Witness ==
    /\ pc = "done"
    /\ \E k \in Runs \ {0}, m \in Runs \ {0} :
          /\ k < m
          /\ Len(data[k + 1]) > 0
          /\ Len(data[m + 1]) > 0
          /\ data[k + 1] # data[m + 1]
          /\ B[k + 1] # B[m + 1]
          /\ Rec(k).X # Rec(m).X
          /\ Rec(k).PM # Rec(m).PM

=============================================================================
